---- MODULE Spec2Model ----
(***************************************************************************)
(* SaaS Signal Miner: the response-parsing and scoring pipeline            *)
(* (src/utils.py), the query orchestrator and its filter (src/main.py) and *)
(* the external client (src/perplexity_client.py).                         *)
(*                                                                         *)
(* Python values are records [t, s, n]: t is the Python type, s the value  *)
(* of a str, n the value of an int.  A dict is a function from its keys    *)
(* (strings) to such values, a list is a sequence.  A call's outcome is a  *)
(* record [raised, exc, val]: the exception it raised, or what it          *)
(* returned.  Texts are TLA+ strings, read character by character.         *)
(***************************************************************************)
EXTENDS Integers, Sequences, FiniteSets, TLC

VARIABLES
    client,    \* SaaSSignalMiner.client: "client" or "None"
    clock,     \* the wall clock datetime.now() reads
    op,        \* the operation that ran last
    arg,       \* its input, as it was passed
    ret,       \* its outcome (after: the input list as the call left it)
    scanned,   \* the list of records the caller holds (the last scan's result)
    heap,      \* the dicts alive, by address (concurrent invocations only)
    frames     \* the locals of each running scan_for_startups invocation

vars == <<client, clock, op, arg, ret, scanned, heap, frames>>

\* no dict is tracked by address and no invocation is in progress
NoHeap == <<>>
NoFrames == <<>>

(***************************************************************************)
(* Python values                                                           *)
(***************************************************************************)
S(x) == [t |-> "str", s |-> x, n |-> 0]
I(k) == [t |-> "int", s |-> "", n |-> k]
None == [t |-> "none", s |-> "", n |-> 0]
\* a dict as a value (a list element): d is the function from keys to values
D(f) == [t |-> "dict", d |-> f]

IsStr(v) == v.t = "str"
IsInt(v) == v.t = "int"
IsDict(v) == v.t = "dict"

Returned(v) == [raised |-> FALSE, exc |-> "", val |-> v]
Raised(e) == [raised |-> TRUE, exc |-> e, val |-> <<>>]
NoRet == Returned(<<>>)

\* dict.get(key, default)
Get(d, key, default) == IF key \in DOMAIN d THEN d[key] ELSE default

(***************************************************************************)
(* Strings: str.lower(), the substring test `in`, and the order `<`        *)
(***************************************************************************)
UpperCase == "ABCDEFGHIJKLMNOPQRSTUVWXYZ"
LowerCase == "abcdefghijklmnopqrstuvwxyz"
Char(str, i) == SubSeq(str, i, i)
From(str, i) == SubSeq(str, i, Len(str))

\* the first position of character c in str, 0 when it has none
IndexOf(c, str) ==
    LET hits == {i \in 1..Len(str) : Char(str, i) = c}
    IN  IF hits = {} THEN 0 ELSE CHOOSE i \in hits : \A j \in hits : i <= j

\* the lower-case letter of each upper-case letter
ToLower == [c \in {Char(UpperCase, i) : i \in 1..26} |->
               Char(LowerCase, IndexOf(c, UpperCase))]

LowerChar(c) == IF c \in DOMAIN ToLower THEN ToLower[c] ELSE c

RECURSIVE Lower(_)
Lower(str) ==
    IF str = "" THEN "" ELSE LowerChar(Char(str, 1)) \o Lower(From(str, 2))

\* sub in str
Contains(sub, str) ==
    \E i \in 1..(Len(str) - Len(sub) + 1) : SubSeq(str, i, i + Len(sub) - 1) = sub

\* the printable ASCII characters in code order: 32..95, then 97..126
PrintableLow == " !\"#$%&'()*+,-./0123456789:;<=>?@ABCDEFGHIJKLMNOPQRSTUVWXYZ[\\]^_"
PrintableHigh == "abcdefghijklmnopqrstuvwxyz{|}~"

\* ord(c)
Ord(c) ==
    IF c = "\n" THEN 10
    ELSE IF c = "\t" THEN 9
    ELSE IF IndexOf(c, PrintableLow) > 0 THEN 31 + IndexOf(c, PrintableLow)
    ELSE 96 + IndexOf(c, PrintableHigh)

\* a < b on str: lexicographic by character code
RECURSIVE StrLess(_, _)
StrLess(a, b) ==
    IF b = "" THEN FALSE
    ELSE IF a = "" THEN TRUE
    ELSE IF Char(a, 1) = Char(b, 1) THEN StrLess(From(a, 2), From(b, 2))
    ELSE Ord(Char(a, 1)) < Ord(Char(b, 1))

(***************************************************************************)
(* calculate_growth_score (src/utils.py)                                   *)
(***************************************************************************)
BaseScore == 50

\* mutant: "series a" tested before "seed"
FundingBonusSeriesFirst(funding_stage) ==
    IF Contains("series a", funding_stage) THEN 15
    ELSE IF Contains("seed", funding_stage) THEN 10
    ELSE IF Contains("series b", funding_stage) THEN 20
    ELSE 0

FundingBonus(funding_stage) ==
    IF Contains("seed", funding_stage) THEN 10
    ELSE IF Contains("series a", funding_stage) THEN 15
    ELSE IF Contains("series b", funding_stage) THEN 20
    ELSE 0

SignalBonus(signal_type) ==
    IF Contains("funding", signal_type) THEN 15
    ELSE IF Contains("partnership", signal_type) THEN 12
    ELSE IF Contains("acquisition", signal_type) THEN 20
    ELSE 0

\* mutant: three independent ifs where the code has an if/elif chain
SectorBonusNotExclusive(sector) ==
    (IF Contains("ai", sector) \/ Contains("artificial intelligence", sector)
        THEN 8 ELSE 0)
    + (IF Contains("cybersecurity", sector) THEN 10 ELSE 0)
    + (IF Contains("healthcare", sector) THEN 7 ELSE 0)

SectorBonus(sector) ==
    IF Contains("ai", sector) \/ Contains("artificial intelligence", sector) THEN 8
    ELSE IF Contains("cybersecurity", sector) THEN 10
    ELSE IF Contains("healthcare", sector) THEN 7
    ELSE 0

Min(a, b) == IF a <= b THEN a ELSE b
Max(a, b) == IF a >= b THEN a ELSE b

\* the sum `score` holds when line 245 is reached (the three fields are str)
AdditiveScore(startup) ==
    BaseScore
    + FundingBonus(Lower(Get(startup, "funding_stage", S("")).s))
    + SignalBonus(Lower(Get(startup, "signal_type", S("")).s))
    + SectorBonus(Lower(Get(startup, "sector", S("")).s))

\* min(100, max(0, score))
Clamp(score) == Min(100, Max(0, score))

\* .lower() of a value that is not a str raises AttributeError
CalculateGrowthScore(startup) ==
    IF \E key \in {"funding_stage", "signal_type", "sector"} :
           ~IsStr(Get(startup, key, S("")))
    THEN Raised("AttributeError")
    ELSE Returned(I(Clamp(AdditiveScore(startup))))

(***************************************************************************)
(* get_fallback_data (src/utils.py): the ten records of the catalog        *)
(***************************************************************************)
Catalog1 ==
    D([name |-> S("TechFlow Analytics"),
       description |-> S("AI-powered business intelligence platform for SMBs"),
       growth_reason |-> S("Recent Series A funding of $5M, growing customer base"),
       source_link |-> S("https://techcrunch.com/techflow-analytics"),
       sector |-> S("Business Intelligence"),
       funding_stage |-> S("Series A"),
       signal_type |-> S("Funding"),
       score |-> I(85)])

Catalog2 ==
    D([name |-> S("CloudSync Pro"),
       description |-> S("Enterprise-grade file synchronization solution"),
       growth_reason |-> S("Major partnership with Microsoft, expanding team"),
       source_link |-> S("https://venturebeat.com/cloudsync-pro"),
       sector |-> S("Cloud Computing"),
       funding_stage |-> S("Seed"),
       signal_type |-> S("Partnership"),
       score |-> I(78)])

Catalog3 ==
    D([name |-> S("DataVault Security"),
       description |-> S("Zero-trust cybersecurity platform for enterprises"),
       growth_reason |-> S("Increased demand post-cyber attacks, new product launch"),
       source_link |-> S("https://techcrunch.com/datavault-security"),
       sector |-> S("Cybersecurity"),
       funding_stage |-> S("Early Stage"),
       signal_type |-> S("Market Demand"),
       score |-> I(92)])

Catalog4 ==
    D([name |-> S("GreenTech Solutions"),
       description |-> S("Sustainability tracking software for manufacturing"),
       growth_reason |-> S("Regulatory compliance requirements, ESG focus"),
       source_link |-> S("https://greenbiz.com/greentech-solutions"),
       sector |-> S("Sustainability"),
       funding_stage |-> S("Seed"),
       signal_type |-> S("Regulatory"),
       score |-> I(80)])

Catalog5 ==
    D([name |-> S("HealthAI Connect"),
       description |-> S("AI-powered patient care coordination platform"),
       growth_reason |-> S("Healthcare digitization trends, pilot with major hospital"),
       source_link |-> S("https://healthcareitnews.com/healthai-connect"),
       sector |-> S("Healthcare"),
       funding_stage |-> S("Series A"),
       signal_type |-> S("Industry Trend"),
       score |-> I(88)])

Catalog6 ==
    D([name |-> S("EduTech Pro"),
       description |-> S("Personalized learning platform for K-12 education"),
       growth_reason |-> S("Remote learning adoption, government contracts"),
       source_link |-> S("https://edtechmagazine.com/edutech-pro"),
       sector |-> S("Education"),
       funding_stage |-> S("Early Stage"),
       signal_type |-> S("Government"),
       score |-> I(75)])

Catalog7 ==
    D([name |-> S("FinFlow Analytics"),
       description |-> S("Real-time financial data analysis for traders"),
       growth_reason |-> S("Market volatility, institutional interest"),
       source_link |-> S("https://fintechnews.com/finflow-analytics"),
       sector |-> S("Fintech"),
       funding_stage |-> S("Seed"),
       signal_type |-> S("Market Opportunity"),
       score |-> I(82)])

Catalog8 ==
    D([name |-> S("LogiChain Pro"),
       description |-> S("Supply chain optimization using blockchain"),
       growth_reason |-> S("Global supply chain disruptions, Fortune 500 pilots"),
       source_link |-> S("https://supplychaindive.com/logichain-pro"),
       sector |-> S("Logistics"),
       funding_stage |-> S("Series A"),
       signal_type |-> S("Market Disruption"),
       score |-> I(79)])

Catalog9 ==
    D([name |-> S("RetailAI Insights"),
       description |-> S("AI-powered retail analytics and customer insights"),
       growth_reason |-> S("E-commerce growth, major retail partnerships"),
       source_link |-> S("https://retailwire.com/retailai-insights"),
       sector |-> S("Retail"),
       funding_stage |-> S("Early Stage"),
       signal_type |-> S("Partnership"),
       score |-> I(76)])

Catalog10 ==
    D([name |-> S("EnergyGrid Optimizer"),
       description |-> S("Smart grid management and energy optimization"),
       growth_reason |-> S("Renewable energy transition, government incentives"),
       source_link |-> S("https://energynews.com/energygrid-optimizer"),
       sector |-> S("Energy"),
       funding_stage |-> S("Seed"),
       signal_type |-> S("Policy"),
       score |-> I(84)])

\* every call builds the list anew from the literals
GetFallbackData ==
    <<Catalog1, Catalog2, Catalog3, Catalog4, Catalog5,
      Catalog6, Catalog7, Catalog8, Catalog9, Catalog10>>

(***************************************************************************)
(* format_startup_data (src/utils.py)                                      *)
(***************************************************************************)
Digits == "0123456789"

\* str(k) of an int k >= 0
RECURSIVE IntToStr(_)
IntToStr(k) ==
    IF k < 10 THEN Char(Digits, k + 1)
    ELSE IntToStr(k \div 10) \o Char(Digits, (k % 10) + 1)

\* datetime.isoformat() of the clock reading k (seconds after a fixed instant)
IsoFormat(k) ==
    "2024-01-01T00:00:" \o (IF k < 10 THEN "0" ELSE "") \o IntToStr(k)

\* d[key] = value
SetItem(d, key, value) ==
    [k \in DOMAIN d \cup {key} |-> IF k = key THEN value ELSE d[k]]

\* mutant: the score is computed whether or not the entry carries one
FormatEntryRescore(startup, now) ==
    IF IsDict(startup)
    THEN LET scored == CalculateGrowthScore(startup.d)
         IN  IF scored.raised THEN Raised(scored.exc)
             ELSE Returned(D(SetItem(SetItem(startup.d, "score", scored.val),
                                     "timestamp", S(IsoFormat(now)))))
    ELSE Raised("TypeError")

\* mutant: an entry that carries a timestamp keeps it
FormatEntryKeepsTimestamp(startup, now) ==
    IF IsDict(startup)
    THEN LET scored == IF "score" \in DOMAIN startup.d
                       THEN Returned(startup.d["score"])
                       ELSE CalculateGrowthScore(startup.d)
         IN  IF scored.raised THEN Raised(scored.exc)
             ELSE Returned(D(SetItem(SetItem(startup.d, "score", scored.val),
                                     "timestamp",
                                     Get(startup.d, "timestamp", S(IsoFormat(now))))))
    ELSE Raised("TypeError")

\* one pass of the loop body (lines 259-267) on one entry, read at clock `now`
FormatEntry(startup, now) ==
    IF IsDict(startup)
    THEN LET scored == IF "score" \in DOMAIN startup.d
                       THEN Returned(startup.d["score"])
                       ELSE CalculateGrowthScore(startup.d)
         IN  IF scored.raised THEN Raised(scored.exc)
             ELSE Returned(D(SetItem(SetItem(startup.d, "score", scored.val),
                                     "timestamp", S(IsoFormat(now)))))
    ELSE IF IsStr(startup)
    \* 'score' not in a str is a substring test; then .get or item assignment fails
    THEN IF Contains("score", startup.s) THEN Raised("TypeError")
         ELSE Raised("AttributeError")
    \* 'score' not in an int or None
    ELSE Raised("TypeError")

\* the loop of lines 259-267 from entry i on; the dicts of the input list are
\* edited in place, so `after` is the caller's list as the loop leaves it
RECURSIVE FormatLoop(_, _, _)
FormatLoop(list, i, now) ==
    IF i > Len(list) THEN [raised |-> FALSE, exc |-> "", after |-> list]
    ELSE LET r == FormatEntry(list[i], now)
         IN  IF r.raised THEN [raised |-> TRUE, exc |-> r.exc, after |-> list]
             ELSE FormatLoop([list EXCEPT ![i] = r.val], i + 1, now)

ScoreOf(startup) == startup.d["score"]

\* a < b is defined between two ints and between two strs
Comparable(a, b) == (IsInt(a) /\ IsInt(b)) \/ (IsStr(a) /\ IsStr(b))
KeyLess(a, b) == IF IsInt(a) THEN a.n < b.n ELSE StrLess(a.s, b.s)

\* list.sort compares every entry with an earlier one: it raises TypeError
\* when two keys cannot be compared
SortRaises(list) ==
    /\ Len(list) >= 2
    /\ \E i, j \in 1..Len(list) : ~Comparable(ScoreOf(list[i]), ScoreOf(list[j]))

InsertAt(list, pos, e) ==
    SubSeq(list, 1, pos - 1) \o <<e>> \o SubSeq(list, pos, Len(list))

\* mutant: an entry goes before the entries of equal score (not stable)
InsertByScoreBeforeEqual(sorted, e) ==
    LET notLarger == {i \in 1..Len(sorted) :
                         ~KeyLess(ScoreOf(e), ScoreOf(sorted[i]))}
    IN  InsertAt(sorted,
                 IF notLarger = {} THEN Len(sorted) + 1
                 ELSE CHOOSE i \in notLarger : \A j \in notLarger : i <= j,
                 e)

\* e goes before the first entry of strictly smaller score: after its equals
InsertByScore(sorted, e) ==
    LET smaller == {i \in 1..Len(sorted) :
                       KeyLess(ScoreOf(sorted[i]), ScoreOf(e))}
    IN  InsertAt(sorted,
                 IF smaller = {} THEN Len(sorted) + 1
                 ELSE CHOOSE i \in smaller : \A j \in smaller : i <= j,
                 e)

\* list.sort(key=lambda x: x['score'], reverse=True): descending and stable
RECURSIVE SortByScoreDesc(_)
SortByScoreDesc(list) ==
    IF list = <<>> THEN <<>>
    ELSE InsertByScore(SortByScoreDesc(SubSeq(list, 1, Len(list) - 1)),
                       list[Len(list)])

\* format_startup_data(startups) read at clock `now`: what it returns or
\* raises, and `after`, the input list as the call leaves it
FormatStartupData(startups, now) ==
    LET loop == FormatLoop(startups, 1, now)
    IN  IF loop.raised
        THEN [raised |-> TRUE, exc |-> loop.exc, val |-> <<>>, after |-> loop.after]
        ELSE IF SortRaises(loop.after)
        THEN [raised |-> TRUE, exc |-> "TypeError", val |-> <<>>, after |-> loop.after]
        ELSE [raised |-> FALSE, exc |-> "", val |-> SortByScoreDesc(loop.after),
              after |-> loop.after]

(***************************************************************************)
(* json.loads, on the JSON the texts of this model hold: arrays, objects,  *)
(* strings without escapes, integers, null, true and false                 *)
(***************************************************************************)
\* a list as a value: v is the sequence of its items
L(items) == [t |-> "list", v |-> items]
Bool(b) == [t |-> "bool", s |-> "", n |-> IF b THEN 1 ELSE 0]

WhiteSpace == {" ", "\t", "\n", "\r"}

At(str, i) == IF i >= 1 /\ i <= Len(str) THEN Char(str, i) ELSE ""

\* whether str holds word at position i
HasAt(str, i, word) == SubSeq(str, i, Min(Len(str), i + Len(word) - 1)) = word

RECURSIVE SkipWhiteSpace(_, _)
SkipWhiteSpace(str, i) ==
    IF At(str, i) \in WhiteSpace THEN SkipWhiteSpace(str, i + 1) ELSE i

\* a decoding step: the value read and the position after it, or no value
Read(v, pos) == [ok |-> TRUE, val |-> v, pos |-> pos]
NoRead == [ok |-> FALSE, val |-> None, pos |-> 0]

IsDigit(c) == c # "" /\ IndexOf(c, Digits) > 0

\* the position after the run of digits that starts at i
RECURSIVE DigitsEnd(_, _)
DigitsEnd(str, i) == IF IsDigit(At(str, i)) THEN DigitsEnd(str, i + 1) ELSE i

\* int(digits)
RECURSIVE StrToInt(_)
StrToInt(digits) ==
    IF digits = "" THEN 0
    ELSE 10 * StrToInt(SubSeq(digits, 1, Len(digits) - 1))
         + (IndexOf(Char(digits, Len(digits)), Digits) - 1)

\* an integer at i: an optional minus, then 0 or a run of digits not led by 0
ReadNumber(str, i) ==
    LET first == IF At(str, i) = "-" THEN i + 1 ELSE i
        last == IF At(str, first) = "0" THEN first + 1 ELSE DigitsEnd(str, first)
        value == StrToInt(SubSeq(str, first, last - 1))
    IN  IF last = first THEN NoRead
        ELSE Read(I(IF first > i THEN 0 - value ELSE value), last)

\* the position of the first quote at or after i, 0 when a control character
\* or the end of the text comes first
RECURSIVE ClosingQuote(_, _)
ClosingQuote(str, i) ==
    IF i > Len(str) \/ At(str, i) \in {"\n", "\t", "\r"} THEN 0
    ELSE IF At(str, i) = "\"" THEN i
    ELSE ClosingQuote(str, i + 1)

\* a string at i (str[i] is the opening quote)
ReadString(str, i) ==
    LET close == ClosingQuote(str, i + 1)
    IN  IF close = 0 THEN NoRead
        ELSE Read(S(SubSeq(str, i + 1, close - 1)), close + 1)

RECURSIVE ReadValue(_, _)
RECURSIVE ReadItems(_, _, _)
RECURSIVE ReadMembers(_, _, _)

\* the items of an array from i on (i is at an item), appended to items
ReadItems(str, i, items) ==
    LET item == ReadValue(str, i)
        next == SkipWhiteSpace(str, item.pos)
    IN  IF ~item.ok THEN NoRead
        ELSE IF At(str, next) = ","
        THEN ReadItems(str, SkipWhiteSpace(str, next + 1), Append(items, item.val))
        ELSE IF At(str, next) = "]"
        THEN Read(L(Append(items, item.val)), next + 1)
        ELSE NoRead

\* the members of an object from i on (i is at a key), added to d
ReadMembers(str, i, d) ==
    LET key == IF At(str, i) = "\"" THEN ReadString(str, i) ELSE NoRead
        colon == SkipWhiteSpace(str, key.pos)
        value == ReadValue(str, SkipWhiteSpace(str, colon + 1))
        next == SkipWhiteSpace(str, value.pos)
    IN  IF ~key.ok \/ At(str, colon) # ":" THEN NoRead
        ELSE IF ~value.ok THEN NoRead
        ELSE IF At(str, next) = ","
        THEN ReadMembers(str, SkipWhiteSpace(str, next + 1),
                         SetItem(d, key.val.s, value.val))
        ELSE IF At(str, next) = "}"
        THEN Read(D(SetItem(d, key.val.s, value.val)), next + 1)
        ELSE NoRead

\* the value that starts at i
ReadValue(str, i) ==
    LET c == At(str, i)
        inner == SkipWhiteSpace(str, i + 1)
    IN  IF c = "[" THEN (IF At(str, inner) = "]" THEN Read(L(<<>>), inner + 1)
                         ELSE ReadItems(str, inner, <<>>))
        ELSE IF c = "{" THEN (IF At(str, inner) = "}" THEN Read(D(<<>>), inner + 1)
                              ELSE ReadMembers(str, inner, <<>>))
        ELSE IF c = "\"" THEN ReadString(str, i)
        ELSE IF c = "-" \/ IsDigit(c) THEN ReadNumber(str, i)
        ELSE IF HasAt(str, i, "null") THEN Read(None, i + 4)
        ELSE IF HasAt(str, i, "true") THEN Read(Bool(TRUE), i + 4)
        ELSE IF HasAt(str, i, "false") THEN Read(Bool(FALSE), i + 5)
        ELSE NoRead

\* json.loads(str): one value, then nothing but white space
JsonLoads(str) ==
    LET value == ReadValue(str, SkipWhiteSpace(str, 1))
    IN  IF value.ok /\ SkipWhiteSpace(str, value.pos) = Len(str) + 1
        THEN Returned(value.val)
        ELSE Raised("JSONDecodeError")

(***************************************************************************)
(* parse_structured_text (src/utils.py): tier 2, the loose extraction      *)
(***************************************************************************)
\* stands for the bullet U+2022, which a string of this module cannot hold;
\* no text of the model uses this character for anything else
Bullet == "^"

\* the length of the match of \n\d+\.|\n<bullet>|\n- at i, 0 when none
MarkerLength(text, i) ==
    IF At(text, i) # "\n" THEN 0
    ELSE IF IsDigit(At(text, i + 1)) /\ At(text, DigitsEnd(text, i + 1)) = "."
    THEN DigitsEnd(text, i + 1) + 1 - i
    ELSE IF At(text, i + 1) = Bullet \/ At(text, i + 1) = "-" THEN 2
    ELSE 0

\* re.split: the pieces between the markers, from position i on; the piece
\* being read starts at `start`
RECURSIVE SplitEntries(_, _, _, _)
SplitEntries(text, i, start, entries) ==
    IF i > Len(text) THEN Append(entries, SubSeq(text, start, Len(text)))
    ELSE IF MarkerLength(text, i) > 0
    THEN SplitEntries(text, i + MarkerLength(text, i), i + MarkerLength(text, i),
                      Append(entries, SubSeq(text, start, i - 1)))
    ELSE SplitEntries(text, i + 1, start, entries)

\* str.strip()
RECURSIVE Strip(_)
Strip(str) ==
    IF str = "" THEN ""
    ELSE IF Char(str, 1) \in WhiteSpace THEN Strip(From(str, 2))
    ELSE IF Char(str, Len(str)) \in WhiteSpace THEN Strip(SubSeq(str, 1, Len(str) - 1))
    ELSE str

\* the class [:\s]
Separators == WhiteSpace \cup {":"}

\* the position after the run of separators that starts at i
RECURSIVE SeparatorsEnd(_, _)
SeparatorsEnd(str, i) ==
    IF At(str, i) \in Separators THEN SeparatorsEnd(str, i + 1) ELSE i

\* the position of the first newline at or after i, Len + 1 when none
RECURSIVE LineEnd(_, _)
LineEnd(str, i) ==
    IF i > Len(str) \/ At(str, i) = "\n" THEN i ELSE LineEnd(str, i + 1)

\* label[:\s]+([^\n]+) tried at position p of entry (lowered is entry in
\* lower case): where group 1 starts, 0 when the pattern does not match there.
\* [:\s]+ takes the longest run after the label that leaves a character other
\* than a newline to start the group.
GroupStart(entry, lowered, label, p) ==
    LET after == p + Len(label)
        starts == {g \in (after + 1)..SeparatorsEnd(entry, after) :
                      g <= Len(entry) /\ At(entry, g) # "\n"}
    IN  IF ~HasAt(lowered, p, label) \/ starts = {} THEN 0
        ELSE CHOOSE g \in starts : \A h \in starts : h <= g

\* re.search(label[:\s]+([^\n]+), entry, re.IGNORECASE): group(1) of the
\* leftmost match, as Returned; Raised when there is no match
SearchLabel(entry, label) ==
    LET lowered == Lower(entry)
        places == {p \in 1..Len(entry) : GroupStart(entry, lowered, label, p) > 0}
        p == CHOOSE q \in places : \A r \in places : q <= r
        g == GroupStart(entry, lowered, label, p)
    IN  IF places = {} THEN Raised("no match")
        ELSE Returned(SubSeq(entry, g, LineEnd(entry, g) - 1))

\* group(1).strip() if the label matched, else the placeholder
Extracted(entry, label, placeholder) ==
    IF SearchLabel(entry, label).raised THEN S(placeholder)
    ELSE S(Strip(SearchLabel(entry, label).val))

\* mutant: a block without a Name label becomes a record too
RECURSIVE ExtractEntriesKeepUnnamed(_, _)
ExtractEntriesKeepUnnamed(entries, i) ==
    IF i > Len(entries) THEN <<>>
    ELSE IF Strip(entries[i]) = ""
    THEN ExtractEntriesKeepUnnamed(entries, i + 1)
    ELSE <<D([name |-> Extracted(entries[i], "name", "Unknown Startup"),
              description |-> Extracted(entries[i], "description", "No description"),
              growth_reason |-> Extracted(entries[i], "reason", "Growth potential detected"),
              source_link |-> Extracted(entries[i], "source", "https://example.com"),
              sector |-> S("Technology"),
              funding_stage |-> S("Early Stage"),
              signal_type |-> S("News"),
              score |-> I(75)])>>
         \o ExtractEntriesKeepUnnamed(entries, i + 1)

\* lines 71-92 on the entries from i on
RECURSIVE ExtractEntries(_, _)
ExtractEntries(entries, i) ==
    IF i > Len(entries) THEN <<>>
    ELSE IF Strip(entries[i]) = "" \/ SearchLabel(entries[i], "name").raised
    THEN ExtractEntries(entries, i + 1)
    ELSE <<D([name |-> Extracted(entries[i], "name", ""),
              description |-> Extracted(entries[i], "description", "No description"),
              growth_reason |-> Extracted(entries[i], "reason", "Growth potential detected"),
              source_link |-> Extracted(entries[i], "source", "https://example.com"),
              sector |-> S("Technology"),
              funding_stage |-> S("Early Stage"),
              signal_type |-> S("News"),
              score |-> I(75)])>>
         \o ExtractEntries(entries, i + 1)

ParseStructuredText(text) == ExtractEntries(SplitEntries(text, 1, 1, <<>>), 1)

(***************************************************************************)
(* parse_saas_startups_response (src/utils.py)                             *)
(***************************************************************************)
\* the last position of character c in str, 0 when it has none
LastIndexOf(c, str) ==
    LET hits == {i \in 1..Len(str) : Char(str, i) = c}
    IN  IF hits = {} THEN 0 ELSE CHOOSE i \in hits : \A j \in hits : j <= i

\* re.search(r'\[.*\]', text, re.DOTALL): from the first [ to the last ] after it
HasJsonMatch(text) ==
    IndexOf("[", text) > 0 /\ LastIndexOf("]", text) > IndexOf("[", text)

JsonMatch(text) == SubSeq(text, IndexOf("[", text), LastIndexOf("]", text))

\* mutant: a decode error falls through to the loose extraction
RawStartupsFallThrough(text) ==
    IF HasJsonMatch(text) /\ ~JsonLoads(JsonMatch(text)).raised
    THEN JsonLoads(JsonMatch(text)).val.v
    ELSE ParseStructuredText(text)

\* lines 23-36: the entries to validate
RawStartups(text) ==
    IF HasJsonMatch(text)
    THEN IF JsonLoads(JsonMatch(text)).raised THEN GetFallbackData
         ELSE JsonLoads(JsonMatch(text)).val.v
    ELSE ParseStructuredText(text)

\* lines 42-51
Validated(startup) ==
    D([name |-> Get(startup.d, "name", S("Unknown Startup")),
       description |-> Get(startup.d, "description", S("No description available")),
       growth_reason |-> Get(startup.d, "growth_reason", S("Growth signals detected")),
       source_link |-> Get(startup.d, "source_link", S("https://example.com")),
       sector |-> Get(startup.d, "sector", S("Technology")),
       funding_stage |-> Get(startup.d, "funding_stage", S("Early Stage")),
       signal_type |-> Get(startup.d, "signal_type", S("News")),
       score |-> Get(startup.d, "score", I(75))])

\* mutant: an entry that is not a dict becomes a record of defaults
RECURSIVE ValidatedStartupsKeepAll(_)
ValidatedStartupsKeepAll(list) ==
    IF list = <<>> THEN <<>>
    ELSE <<Validated(IF IsDict(list[1]) THEN list[1] ELSE D(<<>>))>>
         \o ValidatedStartupsKeepAll(Tail(list))

\* lines 39-52: the dicts among the entries, validated, in order
RECURSIVE ValidatedStartups(_)
ValidatedStartups(list) ==
    IF list = <<>> THEN <<>>
    ELSE (IF IsDict(list[1]) THEN <<Validated(list[1])>> ELSE <<>>)
         \o ValidatedStartups(Tail(list))

\* parse_saas_startups_response(response_text): re.search raises TypeError on
\* a value that is not a str, and no except clause of the function takes it
ParseSaasStartupsResponse(response_text) ==
    IF IsStr(response_text)
    THEN Returned(ValidatedStartups(RawStartups(response_text.s)))
    ELSE Raised("TypeError")

(***************************************************************************)
(* PerplexityClient.ask (src/perplexity_client.py)                         *)
(***************************************************************************)
\* what the HTTP exchange of one request comes to
Unreachable == [kind |-> "unreachable", content |-> None]   \* requests.post raises
HttpError == [kind |-> "http error", content |-> None]     \* raise_for_status raises
NotJson == [kind |-> "not json", content |-> None]         \* response.json() raises
NoChoices == [kind |-> "no choices", content |-> None]     \* 'choices' absent or empty
NoContent == [kind |-> "no content", content |-> None]     \* no message or content key
Content(value) == [kind |-> "content", content |-> value]  \* the content of choice 0

\* ask(prompt), given what the exchange comes to (lines 67-81)
Ask(reply) ==
    IF reply.kind \in {"unreachable", "http error", "not json"}
    THEN Raised("RequestException")
    ELSE IF reply.kind \in {"no choices", "no content"}
    THEN Raised("ValueError")
    ELSE Returned(reply.content)

(***************************************************************************)
(* SaaSSignalMiner (src/main.py)                                           *)
(***************************************************************************)
\* format_startup_data(get_fallback_data()), with the requests issued before it
Fallback(now, requests) ==
    LET formatted == FormatStartupData(GetFallbackData, now)
    IN  [raised |-> formatted.raised, exc |-> formatted.exc, val |-> formatted.val,
         requests |-> requests, fallback |-> TRUE]

\* len(v) is defined
HasLen(v) == v.t \in {"str", "list", "dict"}

\* __init__ (lines 21-30): PerplexityClient() raises when no API key is set
NewClient(keySet) == IF keySet THEN "client" ELSE "None"

\* mutant: an empty parse result is treated as a failure
TryScanEmptyRaises(reply, now) ==
    LET response == Ask(reply)
        parsed == ParseSaasStartupsResponse(response.val)
        formatted == FormatStartupData(parsed.val, now)
    IN  IF response.raised THEN Raised(response.exc)
        ELSE IF ~HasLen(response.val) THEN Raised("TypeError")
        ELSE IF parsed.raised THEN Raised(parsed.exc)
        ELSE IF parsed.val = <<>> THEN Raised("ValueError")
        ELSE IF formatted.raised THEN Raised(formatted.exc)
        ELSE Returned(formatted.val)

\* lines 71-87: the try block; len(response) raises TypeError on None
TryScan(reply, now) ==
    LET response == Ask(reply)
        parsed == ParseSaasStartupsResponse(response.val)
        formatted == FormatStartupData(parsed.val, now)
    IN  IF response.raised THEN Raised(response.exc)
        ELSE IF ~HasLen(response.val) THEN Raised("TypeError")
        ELSE IF parsed.raised THEN Raised(parsed.exc)
        ELSE IF formatted.raised THEN Raised(formatted.exc)
        ELSE Returned(formatted.val)

\* mutant: no except clause around the try block
ScanForStartupsUncaught(cl, reply, now) ==
    IF cl = "None" THEN Fallback(now, 0)
    ELSE [raised |-> TryScan(reply, now).raised, exc |-> TryScan(reply, now).exc,
          val |-> TryScan(reply, now).val, requests |-> 1, fallback |-> FALSE]

\* mutant: a scan that produced no record returns the catalog
ScanForStartupsEmptyFallsBack(cl, reply, now) ==
    IF cl = "None" THEN Fallback(now, 0)
    ELSE IF TryScan(reply, now).raised \/ TryScan(reply, now).val = <<>>
    THEN Fallback(now, 1)
    ELSE [raised |-> FALSE, exc |-> "", val |-> TryScan(reply, now).val,
          requests |-> 1, fallback |-> FALSE]

\* mutant: a miner without a client returns nothing
ScanForStartupsNoClientEmpty(cl, reply, now) ==
    IF cl = "None"
    THEN [raised |-> FALSE, exc |-> "", val |-> <<>>, requests |-> 0, fallback |-> FALSE]
    ELSE IF TryScan(reply, now).raised THEN Fallback(now, 1)
    ELSE [raised |-> FALSE, exc |-> "", val |-> TryScan(reply, now).val,
          requests |-> 1, fallback |-> FALSE]

\* scan_for_startups() of a miner whose client is cl, when the exchange comes
\* to reply and the clock reads now; requests counts the calls of client.ask
ScanForStartups(cl, reply, now) ==
    IF cl = "None" THEN Fallback(now, 0)
    ELSE IF TryScan(reply, now).raised THEN Fallback(now, 1)
    ELSE [raised |-> FALSE, exc |-> "", val |-> TryScan(reply, now).val,
          requests |-> 1, fallback |-> FALSE]

\* mutant: a failed attempt is followed by a second request
ScanCallsRetry(cl, reply, now) ==
    IF cl = "None" THEN <<"format">>
    ELSE IF TryScan(reply, now).raised THEN <<"ask", "ask", "format">>
    ELSE <<"ask", "len", "parse", "format">>

\* the calls scan_for_startups makes, in order: client.ask (line 77), len
\* (line 80), parse_saas_startups_response (line 83), format_startup_data
\* (line 84, and lines 69 and 92 on the catalog)
ScanCalls(cl, reply, now) ==
    LET response == Ask(reply)
        parsed == ParseSaasStartupsResponse(response.val)
        formatted == FormatStartupData(parsed.val, now)
    IN  IF cl = "None" THEN <<"format">>
        ELSE IF response.raised THEN <<"ask", "format">>
        ELSE IF ~HasLen(response.val) THEN <<"ask", "len", "format">>
        ELSE IF parsed.raised THEN <<"ask", "len", "parse", "format">>
        ELSE IF formatted.raised THEN <<"ask", "len", "parse", "format", "format">>
        ELSE <<"ask", "len", "parse", "format">>

\* mutant of a filter stage: compares without lower-casing
FilterByExact(list, key, criterion) ==
    IF criterion = None \/ criterion.s = "" \/ criterion.s = "All" THEN Returned(list)
    ELSE IF \E i \in 1..Len(list) : ~IsStr(Get(list[i].d, key, S("")))
    THEN Raised("AttributeError")
    ELSE LET Keep(s) == Get(s.d, key, S("")).s = criterion.s
         IN  Returned(SelectSeq(list, Keep))

\* one of the three stages of lines 115-133: a criterion that is None, empty
\* or "All" filters nothing; .lower() of a value that is not a str raises
FilterBy(list, key, criterion) ==
    IF criterion = None \/ criterion.s = "" \/ criterion.s = "All" THEN Returned(list)
    ELSE IF \E i \in 1..Len(list) : ~IsStr(Get(list[i].d, key, S("")))
    THEN Raised("AttributeError")
    ELSE LET Keep(s) == Lower(Get(s.d, key, S("")).s) = Lower(criterion.s)
         IN  Returned(SelectSeq(list, Keep))

IsNumber(v) == v.t \in {"int", "bool"}

\* lines 136-139: >= between a str or None and an int raises TypeError
FilterByMinScore(list, min_score) ==
    IF \E i \in 1..Len(list) : ~IsNumber(Get(list[i].d, "score", I(0)))
    THEN Raised("TypeError")
    ELSE LET Keep(s) == Get(s.d, "score", I(0)).n >= min_score
         IN  Returned(SelectSeq(list, Keep))

\* filter_startups(list, sector, funding_stage, signal_type, min_score): the
\* stages run in order, each on what the one before kept
FilterStartups(list, sector, funding_stage, signal_type, min_score) ==
    LET bySector == FilterBy(list, "sector", sector)
        byStage == FilterBy(bySector.val, "funding_stage", funding_stage)
        bySignal == FilterBy(byStage.val, "signal_type", signal_type)
    IN  IF bySector.raised THEN bySector
        ELSE IF byStage.raised THEN byStage
        ELSE IF bySignal.raised THEN bySignal
        ELSE FilterByMinScore(bySignal.val, min_score)

\* mutant: the stages remove the rejected records from the caller's list
InputAfterFilterInPlace(list, sector, funding_stage, signal_type, min_score) ==
    LET filtered == FilterStartups(list, sector, funding_stage, signal_type, min_score)
    IN  IF filtered.raised THEN list ELSE filtered.val

\* the caller's list after filter_startups: line 112 copies it, and every
\* stage binds filtered_startups to a new list without assigning to a record
InputAfterFilter(list, sector, funding_stage, signal_type, min_score) == list

(***************************************************************************)
(* Dicts from optional fields                                              *)
(***************************************************************************)
\* marks a key the dict does not carry
Absent == [t |-> "absent", s |-> "", n |-> 0]

\* the dict holding the keys of d whose value is not Absent
Dict(d) == [key \in {k \in DOMAIN d : d[k] # Absent} |-> d[key]]

(***************************************************************************)
(* The scorer on its own: calculate_growth_score applied to a dict         *)
(***************************************************************************)
FundingStages == {"Seed", "Series A", "Series B", "Pre-Seed", "Seed / Series A",
                  "series a then series b", "SERIES B", "Early Stage", ""}
SignalTypes == {"Funding", "Partnership", "Acquisition", "Funding and Acquisition",
                "partnership / acquisition", "ACQUISITION", "News"}
Sectors == {"AI", "Artificial Intelligence", "Cybersecurity", "Healthcare",
            "Healthcare AI", "Retail", "Cybersecurity and Healthcare", "Technology"}

OptionalStr(strs) == {S(x) : x \in strs} \cup {Absent, None}

ScoreInputs ==
    {Dict([funding_stage |-> f, signal_type |-> g, sector |-> c]) :
        f \in OptionalStr(FundingStages), g \in OptionalStr(SignalTypes),
        c \in OptionalStr(Sectors)}

InitScorer ==
    /\ client = "None"
    /\ clock = 0
    /\ op = "idle"
    /\ arg \in ScoreInputs
    /\ ret = NoRet
    /\ scanned = <<>>
    /\ heap = NoHeap
    /\ frames = NoFrames

\* score = calculate_growth_score(arg)
Score ==
    /\ op \in {"idle", "score"}
    /\ op' = "score"
    /\ ret' = CalculateGrowthScore(arg)
    /\ UNCHANGED <<client, clock, arg, scanned>>
    /\ UNCHANGED <<heap, frames>>

NextScorer == Score

SpecScorer == InitScorer /\ [][NextScorer]_vars

\* the call returned (all three fields it read were str)
Scored == op = "score" /\ ~ret.raised

\* the claim's rules: the bonus of the first needle, in priority order, that
\* the lower-cased text contains; 0 when it contains none
RECURSIVE FirstMatch(_, _)
FirstMatch(rules, text) ==
    IF rules = <<>> THEN 0
    ELSE IF Contains(rules[1][1], Lower(text)) THEN rules[1][2]
    ELSE FirstMatch(Tail(rules), text)

FundingRules == << <<"seed", 10>>, <<"series a", 15>>, <<"series b", 20>> >>
SignalRules == << <<"funding", 15>>, <<"partnership", 12>>, <<"acquisition", 20>> >>
SectorRules == << <<"ai", 8>>, <<"artificial intelligence", 8>>,
                  <<"cybersecurity", 10>>, <<"healthcare", 7>> >>

Field(d, key) == Get(d, key, S("")).s

RuleSum(d) ==
    50 + FirstMatch(FundingRules, Field(d, "funding_stage"))
       + FirstMatch(SignalRules, Field(d, "signal_type"))
       + FirstMatch(SectorRules, Field(d, "sector"))

SeriesAFundingCyber ==
    [funding_stage |-> S("Series A"), signal_type |-> S("Funding"),
     sector |-> S("Cybersecurity")]

\* C7: calculate_growth_score returns 50 plus at most one funding bonus, one
\* signal bonus and one sector bonus (first match in priority order, by
\* case-insensitive substring), clamped to [0, 100]; for "Series A", "Funding",
\* "Cybersecurity" every call returns 90.
C7_ScoreIsRuleSum ==
    Scored =>
        /\ ret.val = I(IF RuleSum(arg) > 100 THEN 100
                       ELSE IF RuleSum(arg) < 0 THEN 0 ELSE RuleSum(arg))
        /\ (arg = SeriesAFundingCyber => ret.val = I(90))

\* a call where two needles of one chain both occur, so the priority decides
C7_Witness ==
    /\ Scored
    /\ Field(arg, "funding_stage") = "Seed / Series A"
    /\ Field(arg, "signal_type") = "Funding and Acquisition"
    /\ Field(arg, "sector") = "Cybersecurity and Healthcare"
    /\ ret.val = I(85)

\* C8 as stated: the score lies between 50 and 95
C8_Original == Scored => (ret.val.n >= 50 /\ ret.val.n <= 95)

\* C8 (amended): for every funding_stage, signal_type and sector the score lies
\* between 50 and 100 inclusive (50 + 20 + 20 + 10 = 100 is reached), so the
\* clamp to [0, 100] never changes the additive sum.
C8_ScoreRange ==
    Scored =>
        /\ ret.val.n >= 50
        /\ ret.val.n <= 100
        /\ ret.val.n = AdditiveScore(arg)

\* Series B, Acquisition, Cybersecurity: the natural maximum
C8_Witness ==
    /\ Scored
    /\ Field(arg, "funding_stage") = "SERIES B"
    /\ Field(arg, "signal_type") = "Acquisition"
    /\ Field(arg, "sector") = "Cybersecurity"
    /\ ret.val = I(100)

(***************************************************************************)
(* The formatter on its own: format_startup_data applied to a list         *)
(***************************************************************************)
MaxStartups == 3
MaxClock == 2

Named(name, score) == Dict([name |-> S(name), score |-> score])

FormatEntries ==
    { D(Named("A", I(80))), D(Named("B", I(80))), D(Named("C", I(90))),
      D(Named("E", S("high"))), D(Named("F", S("low"))), D(Named("G", None)),
      \* no score: the scorer gives 50 + 15 + 15 + 10
      D([name |-> S("D"), funding_stage |-> S("Series A"),
         signal_type |-> S("Funding"), sector |-> S("Cybersecurity")]),
      \* no score, and a sector the scorer cannot lower-case
      D([name |-> S("H"), sector |-> None]),
      \* carries a timestamp of its own
      D([name |-> S("T"), score |-> I(70), timestamp |-> S("1999-12-31T23:59:59")]),
      \* not a dict
      S("note") }

SeqsUpTo(set, len) == UNION {[1..k -> set] : k \in 0..len}

FormatInputs == SeqsUpTo(FormatEntries, MaxStartups)

InitFormat ==
    /\ client = "None"
    /\ clock = 0
    /\ op = "idle"
    /\ arg \in FormatInputs
    /\ ret = NoRet
    /\ scanned = <<>>
    /\ heap = NoHeap
    /\ frames = NoFrames

\* formatted = format_startup_data(arg)
Format ==
    /\ op = "idle"
    /\ clock < MaxClock
    /\ op' = "format"
    /\ ret' = FormatStartupData(arg, clock)
    /\ clock' = clock + 1
    /\ UNCHANGED <<client, arg, scanned>>
    /\ UNCHANGED <<heap, frames>>

\* formatted = format_startup_data(get_fallback_data()), as test_fallback_data does
FormatFallback ==
    /\ clock < MaxClock
    /\ op' = "format"
    /\ arg' = GetFallbackData
    /\ ret' = FormatStartupData(GetFallbackData, clock)
    /\ clock' = clock + 1
    /\ UNCHANGED <<client, scanned>>
    /\ UNCHANGED <<heap, frames>>

NextFormat == Format \/ FormatFallback

SpecFormat == InitFormat /\ [][NextFormat]_vars

\* the call returned
Formatted == op = "format" /\ ~ret.raised

\* the entries of list whose score is v, in list order
WithScore(list, v) ==
    LET Has(e) == ScoreOf(e) = v IN SelectSeq(list, Has)

\* C6: the sequence format_startup_data returns is a permutation of its input
\* entries (as the loop left them), sorted by score non-increasing, and entries
\* of equal score keep their relative input order.
C6_SortedStablePermutation ==
    Formatted =>
        /\ Len(ret.val) = Len(ret.after)
        /\ \A i, j \in 1..Len(ret.val) :
               i < j => ~KeyLess(ScoreOf(ret.val[i]), ScoreOf(ret.val[j]))
        /\ \A v \in {ScoreOf(ret.after[i]) : i \in 1..Len(ret.after)} :
               WithScore(ret.val, v) = WithScore(ret.after, v)

\* three entries, two of equal score behind in the input, the larger one last
C6_Witness ==
    /\ Formatted
    /\ arg = <<D(Named("A", I(80))), D(Named("B", I(80))), D(Named("C", I(90)))>>
    /\ ret.val = <<ret.after[3], ret.after[1], ret.after[2]>>

CatalogKeys ==
    {"name", "description", "growth_reason", "source_link", "sector",
     "funding_stage", "signal_type", "score"}

Restrict(d, keys) == [k \in (DOMAIN d) \cap keys |-> d[k]]

\* C9: format_startup_data(get_fallback_data()) returns exactly 10 records,
\* each a catalog record with every value (the score too) as in the catalog and
\* only timestamp added, ordered by score 92, 88, 85, 84, 82, 80, 79, 78, 76, 75;
\* every call, at any time, is given the same ten catalog records.
C9_FallbackRoundTrip ==
    (op = "format" /\ arg = GetFallbackData) =>
        /\ ~ret.raised
        /\ Len(ret.val) = 10
        /\ [i \in 1..10 |-> ScoreOf(ret.val[i]).n]
               = <<92, 88, 85, 84, 82, 80, 79, 78, 76, 75>>
        /\ [i \in 1..10 |-> ret.val[i].d["name"].s]
               = <<"DataVault Security", "HealthAI Connect", "TechFlow Analytics",
                   "EnergyGrid Optimizer", "FinFlow Analytics", "GreenTech Solutions",
                   "LogiChain Pro", "CloudSync Pro", "RetailAI Insights", "EduTech Pro">>
        /\ \A i \in 1..10 :
               /\ DOMAIN ret.val[i].d = CatalogKeys \cup {"timestamp"}
               /\ \E j \in 1..10 :
                      D(Restrict(ret.val[i].d, CatalogKeys)) = GetFallbackData[j]

\* the catalog formatted a second time, later
C9_Witness ==
    /\ op = "format"
    /\ arg = GetFallbackData
    /\ clock = 2
    /\ Len(ret.val) = 10
    /\ ret.val[1].d["timestamp"] = S("2024-01-01T00:00:01")

(***************************************************************************)
(* The texts the external service answers with                             *)
(***************************************************************************)
MaxJsonEntries == 2

\* the elements a JSON answer is made of
JsonEntries ==
    { "{\"name\": \"Acme\", \"sector\": \"Cybersecurity\", \"funding_stage\": \"Series A\", \"signal_type\": \"Funding\"}",
      "{\"name\": \"Bolt\", \"score\": 90, \"sector\": \"AI\", \"funding_stage\": \"Seed\"}",
      "{\"name\": \"Core\", \"score\": 150, \"sector\": \"cybersecurity\"}",
      "{\"name\": null, \"score\": 90, \"signal_type\": \"Funding\"}",
      "{\"name\": \"Dash\", \"score\": \"high\", \"sector\": null}",
      "{}",
      "7" }

RECURSIVE Join(_, _)
Join(strs, sep) ==
    IF strs = <<>> THEN ""
    ELSE IF Len(strs) = 1 THEN strs[1]
    ELSE strs[1] \o sep \o Join(Tail(strs), sep)

JsonTexts == {"[" \o Join(es, ", ") \o "]" : es \in SeqsUpTo(JsonEntries, MaxJsonEntries)}

OtherTexts ==
    { "",
      "Here is data: [{\"name\":\"Acme\",\"score\":90}] done",
      "1. Name: Acme Corp\nDescription: Widgets\n",
      "I could not find any startups.",
      "Sources: [1] TechCrunch [2] VentureBeat",
      "[draft]\n1. Name: Acme Corp\nDescription: Widgets\n",
      "Startups:\n1. Name: Acme\nReason: Series A\n2. Name: Bolt\nSource: https://bolt.io\n3. No more\n",
      "Results:\n- Name: Acme\n^ Company name Bolt\n- Description: none",
      "[]\n1. Name: Acme Corp\nDescription: Widgets\n",
      "[{\"name\": \"Acme\",}]",
      "[{\"name\": \"Acme\", \"score\": 90} {\"name\": \"Bolt\"}]" }

Texts == JsonTexts \cup OtherTexts

\* what client.ask can be given back: a str, or a content that is null or a list
Contents == {S(text) : text \in Texts} \cup {None, L(<<>>)}

Replies ==
    {Unreachable, HttpError, NotJson, NoChoices, NoContent}
        \cup {Content(v) : v \in Contents}

\* no request is made
NoRequest == [kind |-> "no request", content |-> None]

Clients == {"client", "None"}

RepliesTo(cl) == IF cl = "None" THEN {NoRequest} ELSE Replies

\* ScanForStartups tabulated over the inputs of the model
ScanOutcome ==
    [cl \in Clients |->
        [reply \in RepliesTo(cl) |->
            [now \in 0..MaxClock |->
                ScanForStartups(cl, reply, now)
                    @@ [calls |-> ScanCalls(cl, reply, now)]]]]

(***************************************************************************)
(* The miner: construction, then scans                                     *)
(***************************************************************************)
Init ==
    /\ \E keySet \in BOOLEAN : client = NewClient(keySet)
    /\ clock = 0
    /\ op = "init"
    /\ arg = NoRequest
    /\ ret = NoRet
    /\ scanned = <<>>
    /\ heap = NoHeap
    /\ frames = NoFrames

\* startups = miner.scan_for_startups()
Scan ==
    /\ clock < MaxClock
    /\ \E reply \in RepliesTo(client) :
           /\ arg' = reply
           /\ ret' = ScanOutcome[client][reply][clock]
    /\ op' = "scan"
    /\ scanned' = IF ret'.raised THEN scanned ELSE ret'.val
    /\ clock' = clock + 1
    /\ UNCHANGED client
    /\ UNCHANGED <<heap, frames>>

Next == Scan

Spec == Init /\ [][Next]_vars

(***************************************************************************)
(* The parser on its own: parse_saas_startups_response applied to a value  *)
(***************************************************************************)
InitParser ==
    /\ client = "None"
    /\ clock = 0
    /\ op = "idle"
    /\ arg \in Contents
    /\ ret = NoRet
    /\ scanned = <<>>
    /\ heap = NoHeap
    /\ frames = NoFrames

\* startups = parse_saas_startups_response(arg)
Parse ==
    /\ op = "idle"
    /\ op' = "parse"
    /\ ret' = ParseSaasStartupsResponse(arg)
    /\ UNCHANGED <<client, clock, arg, scanned>>
    /\ UNCHANGED <<heap, frames>>

NextParser == Parse

SpecParser == InitParser /\ [][NextParser]_vars

(***************************************************************************)
(* The filter: filter_startups applied to the result of a scan             *)
(***************************************************************************)
FilterSectors == {None, S("All"), S(""), S("Cybersecurity"), S("ai")}
FilterStages == {None, S("SERIES A")}
FilterSignals == {None, S("Funding")}
MinScores == {0, 85}

\* the miner after its first scan
InitFilter ==
    /\ client \in Clients
    /\ clock = 1
    /\ op = "scan"
    /\ arg \in RepliesTo(client)
    /\ ret = ScanOutcome[client][arg][0]
    /\ scanned = ret.val
    /\ heap = NoHeap
    /\ frames = NoFrames

\* filtered = miner.filter_startups(startups, sector, funding_stage, signal_type, min_score)
Filter ==
    /\ op \in {"scan", "filter"}
    /\ \E sector \in FilterSectors, funding_stage \in FilterStages,
          signal_type \in FilterSignals, min_score \in MinScores :
           /\ arg' = [startups |-> scanned, sector |-> sector,
                      funding_stage |-> funding_stage,
                      signal_type |-> signal_type, min_score |-> min_score]
           /\ ret' = FilterStartups(scanned, sector, funding_stage,
                                    signal_type, min_score)
           /\ scanned' = InputAfterFilter(scanned, sector, funding_stage,
                                          signal_type, min_score)
    /\ op' = "filter"
    /\ UNCHANGED <<client, clock>>
    /\ UNCHANGED <<heap, frames>>

NextFilter == Filter

SpecFilter == InitFilter /\ [][NextFilter]_vars

(***************************************************************************)
(* Claims about the miner's scan                                           *)
(***************************************************************************)
\* the catalog in the order of its scores, 92 down to 75
SortedCatalog ==
    <<Catalog3, Catalog5, Catalog1, Catalog10, Catalog7,
      Catalog4, Catalog8, Catalog2, Catalog9, Catalog6>>

Without(d, keys) == [k \in (DOMAIN d) \ keys |-> d[k]]

\* the records of a list, timestamp aside
TimestampAside(list) ==
    [i \in 1..Len(list) |-> D(Without(list[i].d, {"timestamp"}))]

\* a scan of a miner that has a client
ScannedWithClient == op = "scan" /\ client = "client"

\* what the steps of the try block come to for the reply of the last scan
Asked == Ask(arg)
Parsed == ParseSaasStartupsResponse(Asked.val)
Piped == FormatStartupData(Parsed.val, clock - 1)

AskRaised == Asked.raised
ParseRaised == ~Asked.raised /\ Parsed.raised
FormatRaised == ~Asked.raised /\ ~Parsed.raised /\ Piped.raised

\* C1: scan_for_startups never raises; with a client, whenever client.ask,
\* parse_saas_startups_response or format_startup_data raises, it returns the
\* ten catalog records, equal (timestamp aside) to the formatted catalog.
C1_ScanNeverRaises ==
    /\ op = "scan" => ~ret.raised
    /\ (ScannedWithClient /\ (AskRaised \/ ParseRaised \/ FormatRaised)) =>
           /\ Len(ret.val) = 10
           /\ TimestampAside(ret.val) = SortedCatalog

\* the parser returned two records whose scores sort cannot compare
C1_Witness ==
    /\ ScannedWithClient
    /\ FormatRaised
    /\ Len(Parsed.val) = 2
    /\ Len(ret.val) = 10

\* the scan returned what the parse-then-format pipeline produced
Pipelined == ScannedWithClient /\ ~ret.fallback

\* the entries json.loads decoded from the reply of the last scan that are dicts
SourceEntries ==
    LET IsEntry(e) == IsDict(e)
    IN  SelectSeq(JsonLoads(JsonMatch(arg.content.s)).val.v, IsEntry)

\* the scan went through tier 1: the bracketed substring decoded
Decoded ==
    /\ Pipelined
    /\ HasJsonMatch(arg.content.s)
    /\ ~JsonLoads(JsonMatch(arg.content.s)).raised

\* C3 as stated: every record of the pipeline has an integer score in [0, 100]
C3_ScoreInRange ==
    Pipelined =>
        \A i \in 1..Len(ret.val) :
            /\ IsInt(ret.val[i].d["score"])
            /\ ret.val[i].d["score"].n >= 0
            /\ ret.val[i].d["score"].n <= 100

TextFields ==
    {"name", "description", "growth_reason", "source_link", "sector",
     "funding_stage", "signal_type"}

\* the documented default constants
DefaultOf ==
    [name |-> S("Unknown Startup"),
     description |-> S("No description available"),
     growth_reason |-> S("Growth signals detected"),
     source_link |-> S("https://example.com"),
     sector |-> S("Technology"),
     funding_stage |-> S("Early Stage"),
     signal_type |-> S("News")]

\* the seven text fields of a source entry, defaulted
Defaulted(e) == [k \in TextFields |-> Get(e.d, k, DefaultOf[k])]

\* C4 as stated: a decoded entry without a score key gets the score
\* calculate_growth_score gives its defaulted funding_stage, signal_type and
\* sector; an entry with a score keeps it
C4_MissingScoreComputed ==
    Decoded =>
        \A i \in 1..Len(SourceEntries) :
            LET e == SourceEntries[i]
                computed == CalculateGrowthScore(Defaulted(e))
            IN  ("score" \in DOMAIN e.d \/ ~computed.raised) =>
                    \E j \in 1..Len(ret.val) :
                        /\ Restrict(ret.val[j].d, TextFields) = Defaulted(e)
                        /\ ret.val[j].d["score"] =
                               IF "score" \in DOMAIN e.d THEN e.d["score"]
                               ELSE computed.val

\* C5 as stated: every record has exactly the nine fields, none of them null,
\* and a field absent from the source entry holds its default
C5_NineFieldsPopulated ==
    /\ op = "scan" =>
           \A i \in 1..Len(ret.val) :
               /\ DOMAIN ret.val[i].d = TextFields \cup {"score", "timestamp"}
               /\ \A k \in DOMAIN ret.val[i].d : ret.val[i].d[k] # None
    /\ Decoded =>
           \A i \in 1..Len(SourceEntries) :
               \E j \in 1..Len(ret.val) :
                   \A k \in TextFields :
                       ret.val[j].d[k] = Get(SourceEntries[i].d, k, DefaultOf[k])

(***************************************************************************)
(* Claims about the parser                                                 *)
(***************************************************************************)
\* parse was given a text whose bracketed substring json.loads rejects
ParsedUndecodable ==
    /\ op = "parse"
    /\ IsStr(arg)
    /\ HasJsonMatch(arg.s)
    /\ JsonLoads(JsonMatch(arg.s)).raised

Filtered == op = "filter" /\ ~ret.raised

\* a criterion is applied when it is provided (a str that is not empty) and
\* is not the no-filter sentinel
Applied(criterion) ==
    criterion # None /\ criterion # S("") /\ criterion # S("All")

\* the logical AND of the criteria applied, and of score >= min_score
Satisfies(s, criteria) ==
    /\ \A key \in {"sector", "funding_stage", "signal_type"} :
           Applied(criteria[key]) => Lower(s.d[key].s) = Lower(criteria[key].s)
    /\ s.d["score"].n >= criteria.min_score

OnlyCriterion(key, criterion, min_score) ==
    /\ \A k \in {"sector", "funding_stage", "signal_type"} :
           arg[k] = IF k = key THEN criterion ELSE None
    /\ arg.min_score = min_score

\* C10: filter_startups returns exactly the input records that satisfy the AND
\* of case-insensitive equality on each provided, non-sentinel criterion and
\* score >= min_score, in input order; on the formatted catalog, sector
\* "Cybersecurity" gives the one record DataVault Security and min_score 85
\* gives the records scoring 92, 88, 85.
C10_FilterIsConjunction ==
    Filtered =>
        /\ LET Kept(s) == Satisfies(s, arg) IN ret.val = SelectSeq(arg.startups, Kept)
        /\ (TimestampAside(arg.startups) = SortedCatalog
            /\ OnlyCriterion("sector", S("Cybersecurity"), 0))
               => [i \in 1..Len(ret.val) |-> ret.val[i].d["name"].s]
                      = <<"DataVault Security">>
        /\ (TimestampAside(arg.startups) = SortedCatalog
            /\ OnlyCriterion("sector", None, 85))
               => [i \in 1..Len(ret.val) |-> ret.val[i].d["score"].n]
                      = <<92, 88, 85>>

\* the formatted catalog filtered by a stage written in another case
C10_Witness ==
    /\ Filtered
    /\ TimestampAside(arg.startups) = SortedCatalog
    /\ OnlyCriterion("funding_stage", S("SERIES A"), 0)
    /\ [i \in 1..Len(ret.val) |-> ret.val[i].d["name"].s]
           = <<"HealthAI Connect", "TechFlow Analytics", "LogiChain Pro">>

\* the call is made with every argument at its default
AllDefaults ==
    /\ op = "filter"
    /\ arg.sector = None
    /\ arg.funding_stage = None
    /\ arg.signal_type = None
    /\ arg.min_score = 0

\* C11 as stated: filter_startups with all-default arguments returns a
\* sequence equal in content and order to its input, for every sequence of
\* records the pipeline can produce
C11_DefaultFilterIsIdentity ==
    AllDefaults => (~ret.raised /\ ret.val = arg.startups)

FallbackOnly ==
    /\ ~ret.raised
    /\ op = "scan" =>
           /\ ret.requests = 0
           /\ TimestampAside(ret.val) = SortedCatalog
           /\ \A i \in 1..Len(ret.val) :
                  ret.val[i].d["timestamp"] = S(IsoFormat(clock - 1))

\* C13: a miner whose client could not be created at construction stays
\* without a client for its whole lifetime: construction does not raise, and
\* every later scan, after any number of earlier scans, issues no external
\* request and returns the formatted fallback catalog.
C13_FallbackOnlyLifetime ==
    [](client = "None" => [](client = "None" /\ FallbackOnly))

\* the second scan of a miner built without a client
C13_Witness ==
    /\ client = "None"
    /\ op = "scan"
    /\ clock = 2
    /\ ret.requests = 0
    /\ Len(ret.val) = 10
    /\ scanned = ret.val

(***************************************************************************)
(* Claims about a scan whose answer holds no record                        *)
(***************************************************************************)
\* the external call completed: ask returned the content of choice 0
Completed == ScannedWithClient /\ ~AskRaised

\* len(response) at main.py:80 raised
LenRaised == ~Asked.raised /\ ~HasLen(Asked.val)

\* the parser returned, and returned no record
ParsedNothing ==
    /\ Completed
    /\ HasLen(Asked.val)
    /\ ~Parsed.raised
    /\ Parsed.val = <<>>

IsFormattedCatalog(list) ==
    Len(list) = 10 /\ TimestampAside(list) = SortedCatalog

C15_EmptyParseIsReturned ==
    ParsedNothing =>
        /\ ~ret.raised
        /\ ret.val = <<>>
        /\ ~ret.fallback
        /\ ret.requests = 1

\* the service answered with an array whose only element is not a mapping
C15_Witness ==
    /\ ParsedNothing
    /\ arg.content = S("[7]")
    /\ JsonLoads("[7]").val.v = <<I(7)>>
    /\ ret.val = <<>>

(***************************************************************************)
(* Claims about the timestamp                                              *)
(***************************************************************************)
\* format_startup_data returned
FormatReturned == op = "format" /\ ~ret.raised

\* the entries of the input that carry a timestamp
Stamped(list) == {i \in 1..Len(list) : IsDict(list[i]) /\ "timestamp" \in DOMAIN list[i].d}

\* C16: format_startup_data sets the timestamp of every output record to the
\* capture time of that formatting call, whatever timestamp the input entry
\* carried; no input timestamp survives formatting.
C16_TimestampOverwritten ==
    FormatReturned =>
        /\ \A i \in 1..Len(ret.val) :
               /\ "timestamp" \in DOMAIN ret.val[i].d
               /\ ret.val[i].d["timestamp"] = S(IsoFormat(clock - 1))
        /\ \A j \in Stamped(arg) : \A i \in 1..Len(ret.val) :
               ret.val[i].d["timestamp"] # arg[j].d["timestamp"]

\* an entry stamped in 1999 was formatted
C16_Witness ==
    /\ FormatReturned
    /\ Len(arg) = 2
    /\ Stamped(arg) = {2}
    /\ arg[2].d["timestamp"] = S("1999-12-31T23:59:59")
    /\ ret.val[2].d["name"] = S("T")
    /\ ret.val[2].d["timestamp"] = S("2024-01-01T00:00:00")

(***************************************************************************)
(* Claims about the two tiers of the parser                                *)
(***************************************************************************)
\* parse was given a text whose bracketed substring json.loads decodes
ParsedDecodable ==
    /\ op = "parse"
    /\ IsStr(arg)
    /\ HasJsonMatch(arg.s)
    /\ ~JsonLoads(JsonMatch(arg.s)).raised

\* the elements of the decoded array, and those of them that are mappings
Elements == JsonLoads(JsonMatch(arg.s)).val.v
Mappings == LET IsMapping(e) == IsDict(e) IN SelectSeq(Elements, IsMapping)

\* record r holds the fields of mapping m, and defaults for those m lacks
RecordOf(r, m) ==
    /\ DOMAIN r.d = TextFields \cup {"score"}
    /\ \A k \in TextFields : r.d[k] = Get(m.d, k, DefaultOf[k])
    /\ r.d["score"] = Get(m.d, "score", I(75))

\* C17: when the bracketed substring decodes, the parser returns one record
\* per array element that is a mapping, in array order, and drops every other
\* element; a decoded empty array yields an empty result, with no fall-through
\* to tier 2; 'Here is data: [{"name":"Acme","score":90}] done' yields exactly
\* one record, with name "Acme" and score 90.
C17_OneRecordPerMapping ==
    ParsedDecodable =>
        /\ ~ret.raised
        /\ Len(ret.val) = Len(Mappings)
        /\ \A i \in 1..Len(Mappings) : RecordOf(ret.val[i], Mappings[i])
        /\ Elements = <<>> => ret.val = <<>>
        /\ arg = S("Here is data: [{\"name\":\"Acme\",\"score\":90}] done") =>
               /\ Len(ret.val) = 1
               /\ ret.val[1].d["name"] = S("Acme")
               /\ ret.val[1].d["score"] = I(90)

\* an array of a mapping and a number
C17_Witness ==
    /\ ParsedDecodable
    /\ Len(Elements) = 2
    /\ Elements[2] = I(7)
    /\ Len(ret.val) = 1
    /\ ret.val[1].d["name"] = S("Bolt")

\* parse was given a text without a bracket pair
ParsedLoose ==
    /\ op = "parse"
    /\ IsStr(arg)
    /\ ~HasJsonMatch(arg.s)

\* the non-empty blocks between the list markers in which a Name label is found
NamedBlocks ==
    LET HasName(block) == Strip(block) # "" /\ ~SearchLabel(block, "name").raised
    IN  SelectSeq(SplitEntries(arg.s, 1, 1, <<>>), HasName)

\* the rest of the line after the label, stripped, or `absent` without the label
Labelled(block, label, absent) ==
    IF SearchLabel(block, label).raised THEN S(absent)
    ELSE S(Strip(SearchLabel(block, label).val))

\* record r is the mapping of block b, given the values of the absent labels
LooseRecordOf(r, b, noDescription, noReason, noSource) ==
    /\ DOMAIN r.d = TextFields \cup {"score"}
    /\ r.d["name"] = S(Strip(SearchLabel(b, "name").val))
    /\ r.d["description"] = Labelled(b, "description", noDescription)
    /\ r.d["growth_reason"] = Labelled(b, "reason", noReason)
    /\ r.d["source_link"] = Labelled(b, "source", noSource)
    /\ r.d["sector"] = S("Technology")
    /\ r.d["funding_stage"] = S("Early Stage")
    /\ r.d["signal_type"] = S("News")
    /\ r.d["score"] = I(75)

\* C18 as stated: an absent Description, Reason or Source takes the documented
\* default constant of its field
C18_Original ==
    ParsedLoose =>
        /\ ~ret.raised
        /\ Len(ret.val) = Len(NamedBlocks)
        /\ \A i \in 1..Len(NamedBlocks) :
               LooseRecordOf(ret.val[i], NamedBlocks[i],
                             DefaultOf["description"].s,
                             DefaultOf["growth_reason"].s,
                             DefaultOf["source_link"].s)

\* C18 (amended): on a text without a bracket pair the parser yields, in block
\* order, one mapping per non-empty block in which a Name label is found and
\* none for a block without one; each has sector "Technology", funding_stage
\* "Early Stage", signal_type "News", score 75, and an absent Description,
\* Reason or Source takes the placeholder "No description", "Growth potential
\* detected" or "https://example.com". "1. Name: Acme Corp\nDescription:
\* Widgets\n" gives one mapping, name "Acme Corp", description "Widgets".
C18_LooseExtraction ==
    ParsedLoose =>
        /\ ~ret.raised
        /\ Len(ret.val) = Len(NamedBlocks)
        /\ \A i \in 1..Len(NamedBlocks) :
               LooseRecordOf(ret.val[i], NamedBlocks[i], "No description",
                             "Growth potential detected", "https://example.com")
        /\ arg = S("1. Name: Acme Corp\nDescription: Widgets\n") =>
               /\ Len(ret.val) = 1
               /\ ret.val[1].d["name"] = S("Acme Corp")
               /\ ret.val[1].d["description"] = S("Widgets")
               /\ ret.val[1].d["growth_reason"] = S("Growth potential detected")
               /\ ret.val[1].d["source_link"] = S("https://example.com")
        /\ arg = S("Startups:\n1. Name: Acme\nReason: Series A\n2. Name: Bolt\nSource: https://bolt.io\n3. No more\n") =>
               /\ [i \in 1..Len(ret.val) |-> ret.val[i].d["name"].s] = <<"Acme", "Bolt">>
               /\ ret.val[1].d["growth_reason"] = S("Series A")
               /\ ret.val[1].d["description"] = S("No description")
               /\ ret.val[2].d["source_link"] = S("https://bolt.io")

\* three numbered blocks and a heading, two of them with a Name label
C18_Witness ==
    /\ ParsedLoose
    /\ Len(SplitEntries(arg.s, 1, 1, <<>>)) = 4
    /\ Len(NamedBlocks) = 2
    /\ Len(ret.val) = 2
    /\ ret.val[2].d["name"] = S("Bolt")
    /\ ret.val[2].d["description"] = S("No description")

(***************************************************************************)
(* Claims about entries that are not mappings                              *)
(***************************************************************************)
\* the entries of the input that are mappings
MappingEntries(list) == LET IsMapping(e) == IsDict(e) IN SelectSeq(list, IsMapping)

\* C19 as stated: format_startup_data, given entries of which some are not
\* mappings, skips those without raising and returns one record for each
\* mapping entry, at most as many as it was given
C19_NonMappingsSkipped ==
    (op = "format" /\ \E i \in 1..Len(arg) : ~IsDict(arg[i])) =>
        /\ ~ret.raised
        /\ Len(ret.val) = Len(MappingEntries(arg))
        /\ Len(ret.val) <= Len(arg)

(***************************************************************************)
(* Claims about the external requests of a scan                            *)
(***************************************************************************)
Positions(calls, name) == {i \in 1..Len(calls) : calls[i] = name}

C21_FormatKeepsInput ==
    op = "format" =>
        /\ Len(ret.after) = Len(arg)
        /\ \A i \in 1..Len(arg) : ret.after[i] = arg[i]

\* is `sub` what is left of `list` after dropping some of its elements
RECURSIVE IsSubsequence(_, _)
IsSubsequence(sub, list) ==
    IF sub = <<>> THEN TRUE
    ELSE IF list = <<>> THEN FALSE
    ELSE IF Head(sub) = Head(list) THEN IsSubsequence(Tail(sub), Tail(list))
    ELSE IsSubsequence(sub, Tail(list))

\* C23 as stated: filter_startups does not raise on any sequence a scan can
\* return, for any sector, funding_stage, signal_type and min_score >= 0,
\* whatever values the response carried; it returns a subsequence of its input
C23_FilterNeverRaises ==
    op = "filter" =>
        /\ ~ret.raised
        /\ IsSubsequence(ret.val, arg.startups)

(***************************************************************************)
(* Concurrent invocations of scan_for_startups on one miner.  Dicts live   *)
(* in the heap and lists hold their addresses, so that an edit made by one *)
(* invocation is seen by every holder of the same dict.  Each invocation   *)
(* advances one step at a time: the request, the parse, one pass of the    *)
(* formatter's loop, the sort, and the filter the caller applies.          *)
(***************************************************************************)
Invocations == {"a", "b"}

ConcurrentReplies ==
    { Unreachable,
      Content(S("")),
      \* two scores the sort cannot compare: the formatter raises
      Content(S("[{\"name\": \"Bolt\", \"score\": 90}, {\"name\": \"Dash\", \"score\": \"high\"}]")),
      Content(S("[{\"name\": \"Acme\", \"sector\": \"AI\"}, {\"name\": \"Core\", \"score\": 150}]")) }

\* mutant: the catalog is one module-level list, handed out to every caller
CatalogAddressesShared(p) == [i \in 1..10 |-> <<"module", "catalog", i>>]

\* get_fallback_data() called by invocation p: the return value is a list
\* display of dict displays, so every call builds ten dicts of its own
CatalogAddresses(p) == [i \in 1..10 |-> <<p, "catalog", i>>]

\* the dicts validation builds for invocation p (validated_startup = {...})
ParsedAddresses(p, n) == [i \in 1..n |-> <<p, "parsed", i>>]

\* the heap after dicts with the given contents are built at the addresses;
\* a dict that exists already is not rebuilt
Allocate(h, addresses, contents) ==
    [a \in DOMAIN h \cup {addresses[i] : i \in 1..Len(addresses)} |->
        IF a \in DOMAIN h THEN h[a]
        ELSE contents[CHOOSE i \in 1..Len(addresses) : addresses[i] = a]]

\* the dicts a list of addresses refers to
Deref(h, list) == [i \in 1..Len(list) |-> h[list[i]]]

NewFrame(reply) ==
    [pc |-> "start", reply |-> reply, response |-> NoRet, list |-> <<>>, i |-> 0,
     now |-> 0, fallback |-> FALSE, seen |-> <<>>, result |-> NoRet,
     filtered |-> NoRet]

InitConcurrent ==
    /\ client \in Clients
    /\ clock = 0
    /\ op = "concurrent"
    /\ arg = NoRequest
    /\ ret = NoRet
    /\ scanned = <<>>
    /\ heap = NoHeap
    /\ frames \in [Invocations -> {NewFrame(reply) :
                         reply \in IF client = "None" THEN {NoRequest}
                                   ELSE ConcurrentReplies}]

\* invocation p moves to frame f, the heap becomes h
Step(p, f, h) ==
    /\ frames' = [frames EXCEPT ![p] = f]
    /\ heap' = h
    /\ UNCHANGED <<client, op, arg, ret, scanned>>

\* line 67: if not self.client; the call is stamped with the clock it starts at
Start(p) ==
    /\ frames[p].pc = "start"
    /\ clock' = clock + 1
    /\ Step(p, [frames[p] EXCEPT !.now = clock,
                                 !.pc = IF client = "None" THEN "fallback" ELSE "ask"],
            heap)

\* line 77: response = self.client.ask(query)
AskStep(p) ==
    /\ frames[p].pc = "ask"
    /\ UNCHANGED clock
    /\ LET response == Ask(frames[p].reply)
       IN  Step(p, [frames[p] EXCEPT !.response = response,
                                     !.pc = IF response.raised THEN "fallback"
                                            ELSE "parse"],
                heap)

\* lines 80-83: len(response), then the parser, whose records are new dicts
ParseStep(p) ==
    /\ frames[p].pc = "parse"
    /\ UNCHANGED clock
    /\ LET response == frames[p].response.val
           parsed == ParseSaasStartupsResponse(response)
           list == ParsedAddresses(p, Len(parsed.val))
       IN  IF ~HasLen(response) \/ parsed.raised
           THEN Step(p, [frames[p] EXCEPT !.pc = "fallback"], heap)
           ELSE Step(p, [frames[p] EXCEPT !.list = list, !.i = 1, !.pc = "format"],
                     Allocate(heap, list, parsed.val))

\* lines 69 and 92: get_fallback_data(), handed to format_startup_data
FallbackStep(p) ==
    /\ frames[p].pc = "fallback"
    /\ UNCHANGED clock
    /\ LET list == CatalogAddresses(p)
           h == Allocate(heap, list, GetFallbackData)
       IN  Step(p, [frames[p] EXCEPT !.list = list, !.i = 1, !.pc = "format",
                                     !.fallback = TRUE, !.seen = Deref(h, list)],
                h)

\* where an exception raised by format_startup_data takes the invocation: to
\* the except clause from the try block, to the caller from anywhere else
Except(f, exc) ==
    IF f.fallback THEN [f EXCEPT !.pc = "done", !.result = Raised(exc)]
    ELSE [f EXCEPT !.pc = "fallback"]

\* utils.py lines 259-269: one pass of the loop, editing the dict in place
FormatStep(p) ==
    /\ frames[p].pc = "format"
    /\ frames[p].i <= Len(frames[p].list)
    /\ UNCHANGED clock
    /\ LET address == frames[p].list[frames[p].i]
           entry == FormatEntry(heap[address], frames[p].now)
       IN  IF entry.raised THEN Step(p, Except(frames[p], entry.exc), heap)
           ELSE Step(p, [frames[p] EXCEPT !.i = @ + 1],
                     [heap EXCEPT ![address] = entry.val])

\* utils.py lines 270-272: the sort, and the return to the caller
SortStep(p) ==
    /\ frames[p].pc = "format"
    /\ frames[p].i > Len(frames[p].list)
    /\ UNCHANGED clock
    /\ LET formatted == Deref(heap, frames[p].list)
       IN  IF SortRaises(formatted) THEN Step(p, Except(frames[p], "TypeError"), heap)
           ELSE Step(p, [frames[p] EXCEPT !.pc = "filter",
                             !.result = Returned(SortByScoreDesc(formatted))],
                     heap)

\* the caller filters what the scan returned: filter_startups(startups, min_score=85)
FilterStep(p) ==
    /\ frames[p].pc = "filter"
    /\ UNCHANGED clock
    /\ Step(p, [frames[p] EXCEPT !.pc = "done",
                    !.filtered = FilterStartups(frames[p].result.val,
                                                None, None, None, 85)],
            heap)

NextConcurrent ==
    \E p \in Invocations :
        \/ Start(p)
        \/ AskStep(p)
        \/ ParseStep(p)
        \/ FallbackStep(p)
        \/ FormatStep(p)
        \/ SortStep(p)
        \/ FilterStep(p)

SpecConcurrent == InitConcurrent /\ [][NextConcurrent]_vars

(***************************************************************************)
(* Claims about concurrent scans                                           *)
(***************************************************************************)
\* what invocation p returns when it runs alone on the same reply, started
\* at the same clock reading
Alone(p) == ScanForStartups(client, frames[p].reply, frames[p].now)

Returning(p) == frames[p].pc \in {"filter", "done"}

Held(p) == {frames[p].list[i] : i \in 1..Len(frames[p].list)}

\* C22: concurrent scan_for_startups invocations, in any interleaving of
\* their steps, do not interfere: no dict is held by two of them, each returns
\* what it returns when run alone on the same external response, the caller's
\* filter gives what it gives on that result, and the catalog every call of
\* get_fallback_data hands out has the content of the literal catalog,
\* whatever formatting or filtering earlier or concurrent calls have done.
C22_NoInterference ==
    op = "concurrent" =>
        /\ \A p \in Invocations :
               /\ frames[p].seen \in {<<>>, GetFallbackData}
               /\ Returning(p) =>
                      /\ ~frames[p].result.raised
                      /\ frames[p].result.val = Alone(p).val
                      /\ TimestampAside(frames[p].result.val)
                             = TimestampAside(Alone(p).val)
                      /\ frames[p].fallback = Alone(p).fallback
               /\ (frames[p].pc = "done" /\ ~frames[p].result.raised) =>
                      frames[p].filtered
                          = FilterStartups(Alone(p).val, None, None, None, 85)
        /\ \A p, q \in Invocations : p # q => Held(p) \cap Held(q) = {}

\* invocation b is handed the catalog while invocation a, started earlier,
\* is half-way through formatting its own
C22_Witness ==
    /\ op = "concurrent"
    /\ frames["a"].pc = "format"
    /\ frames["a"].fallback
    /\ frames["a"].i = 5
    /\ frames["a"].now = 0
    /\ "timestamp" \in DOMAIN heap[frames["a"].list[4]].d
    /\ frames["b"].pc = "format"
    /\ frames["b"].fallback
    /\ frames["b"].i = 1
    /\ frames["b"].seen = GetFallbackData

====
